---- MODULE Spec2Model ----
(***************************************************************************)
(* A model of tasks.py, the task runner of the doctor cluster: the         *)
(* parallel deployment (deploy_nixos), the expansion-card documentation    *)
(* (document_cards), the tasks that stage secrets in a temporary directory, *)
(* the IPMI power measurement and the rolling reboot.                      *)
(*                                                                         *)
(* Text is a sequence of one-character or multi-character fragments        *)
(* (strings); concatenation is \o.  An optional value (Python's None or a  *)
(* value) is the empty sequence or a one-element sequence.                 *)
(***************************************************************************)
EXTENDS Integers, Sequences, FiniteSets, TLC

VARIABLES
    hosts,      \* the DeployGroup's host list: a sequence of DeployHost records
    main,       \* where the calling (main) thread of the task is
    pc,         \* pc[i]: where the callback of host i is
    locals,     \* locals[i]: the local variables of the callback of host i
    ran,        \* ran[i]: the commands run so far for host i, with their exit status
    results,    \* the HostResults collected by the dispatch, in completion order
    markdown,   \* document_cards' return value (None until it returns)
    task,       \* the task invoked (of the tasks that do not dispatch)
    step,       \* where that task is; "returned" and "raised" end it
    trace,      \* the commands the task has run, with their outcome
    tmpdir,     \* the task's tempfile.TemporaryDirectory: "none", "present", "removed"
    tlocals     \* the local variables of the task

dispatchVars == <<hosts, main, pc, locals, ran, results, markdown>>
taskVars == <<task, step, trace, tmpdir, tlocals>>
vars == <<hosts, main, pc, locals, ran, results, markdown, task, step, trace, tmpdir, tlocals>>

-----------------------------------------------------------------------------
(* Bounds of the model. *)

NumHosts == 2

\* the most "System Slot Information" sections of a dmidecode output
MaxSlots == 2

\* the most lines of an inxi output
MaxLines == 3

\* the most characters of a hostname given to mgmt_hostname
MaxName == 4

\* the most pings of one wait_for_host the model follows
MaxPings == 2

-----------------------------------------------------------------------------
(* Values. *)

None == <<>>
Some(x) == <<x>>

\* Python truthiness of an optional string: neither None nor "".
Truthy(opt) == opt # None /\ opt[1] # <<>>

\* The exit statuses a command may end with.
ExitCodes == {0, 1, 2}

\* dict.get(key, default) and dict.get(key) on a meta dictionary.
meta_get(meta, key, default) == IF key \in DOMAIN meta THEN Some(meta[key]) ELSE default

EmptyMeta == [k \in {} |-> <<>>]

DeployHost(host, user, meta) == [host |-> host, user |-> user, meta |-> meta]

\* The host names the model deploys to ("a", "ab", "b", "c").
HostNamePool == << <<"a">>, <<"a", "b">>, <<"b">>, <<"c">> >>

get_hosts(names) == [i \in 1..Len(names) |-> DeployHost(names[i], Some(<<"root">>), EmptyMeta)]

\* meta of deploy_ruby and deploy_doctor
RubyMeta ==
    [target_user |-> <<"root">>, target_host |-> <<"ruby.r">>,
     flake_attr |-> <<"ruby">>, config_dir |-> <<"/var/lib/nixos-config">>]

DoctorMeta ==
    [target_user |-> <<"root">>, target_host |-> <<"doctor.r">>,
     flake_attr |-> <<"doctor">>, config_dir |-> <<"/var/lib/nixos-config">>]

\* further metas deploy_nixos accepts: a target host without a user, a flake
\* path with an empty attribute
OtherMetas ==
    { [target_host |-> <<"ruby.r">>],
      [flake_path |-> <<"/cfg">>, flake_attr |-> <<>>] }

-----------------------------------------------------------------------------
(* Text operations. *)

RECURSIVE Concat(_)
\* "".join(parts)
Concat(parts) == IF parts = <<>> THEN <<>> ELSE Head(parts) \o Concat(Tail(parts))

Reverse(s) == [k \in 1..Len(s) |-> s[Len(s) + 1 - k]]

\* sep in s
Contains(s, sep) == \E k \in DOMAIN s : s[k] = sep

RECURSIVE SplitOn(_, _)
\* s.split(sep)
SplitOn(s, sep) ==
    IF ~Contains(s, sep)
      THEN <<s>>
      ELSE LET k == CHOOSE n \in DOMAIN s : s[n] = sep /\ \A m \in 1..(n - 1) : s[m] # sep
           IN <<SubSeq(s, 1, k - 1)>> \o SplitOn(SubSeq(s, k + 1, Len(s)), sep)

\* s.splitlines()
SplitLines(s) ==
    LET parts == SplitOn(s, "\n")
    IN IF parts[Len(parts)] = <<>> THEN SubSeq(parts, 1, Len(parts) - 1) ELSE parts

Whitespace == {" ", "\n", "\t"}

RECURSIVE LStrip(_)
LStrip(s) == IF s # <<>> /\ Head(s) \in Whitespace THEN LStrip(Tail(s)) ELSE s

\* s.strip()
Strip(s) == Reverse(LStrip(Reverse(LStrip(s))))

RECURSIVE Replace(_, _, _)
\* s.replace(old, new), old not empty
Replace(s, old, new) ==
    IF Len(s) < Len(old)
      THEN s
      ELSE IF SubSeq(s, 1, Len(old)) = old
             THEN new \o Replace(SubSeq(s, Len(old) + 1, Len(s)), old, new)
             ELSE <<Head(s)>> \o Replace(Tail(s), old, new)

\* the code points of the characters of the host names
Ord == [a |-> 97, b |-> 98, c |-> 99, g |-> 103]

RECURSIVE StrLess(_, _)
\* s < t on strings
StrLess(s, t) ==
    IF t = <<>> THEN FALSE
    ELSE IF s = <<>> THEN TRUE
    ELSE IF Ord[Head(s)] # Ord[Head(t)] THEN Ord[Head(s)] < Ord[Head(t)]
    ELSE StrLess(Tail(s), Tail(t))

\* all sequences over S of length at most n
SeqsUpTo(S, n) == UNION { [1..k -> S] : k \in 0..n }

\* the orderings of the first n host names
Orderings(n) == { p \in [1..n -> 1..n] : \A a, b \in 1..n : a # b => p[a] # p[b] }

-----------------------------------------------------------------------------
(* The dispatcher (DeployGroup.run_function) and its results.              *)

\* A HostResult: the host, an exit status and the callback's return value
\* or the error it raised.
HostResult(h, status, value) == [host |-> h, status |-> status, result |-> value]

\* A callback that returned: its result is captured.
CaptureReturn(res, h, value) == Append(res, HostResult(h, 0, value))

CaptureErrorLost(res, h, error) == res

\* A callback that raised: the error is captured in that host's result; no
\* other host is touched.
CaptureError(res, h, error) == Append(res, HostResult(h, error.returncode, error))

\* The dispatch returns once every host's callback has ended.
AllJoined == \A i \in DOMAIN pc : pc[i] = "done"

\* subprocess.CalledProcessError of a command run with check=True.  The
\* output is captured only when the caller asked for a pipe.
CalledProcessError(cmd, rc, output) == [cmd |-> cmd, returncode |-> rc, output |-> output]

CompletedProcess(cmd, rc, stdout) == [args |-> cmd, returncode |-> rc, stdout |-> stdout]

\* An entry of ran[i]: a command and its exit status (None while it runs).
Started(cmd) == [cmd |-> cmd, rc |-> None]
Finish(log, rc) == [log EXCEPT ![Len(log)].rc = Some(rc)]

\* The text the k-th command of host i printed.
Output(i, k) == <<"output", i, k>>

\* What a finished command hands back of the text it printed: the text when
\* the caller passed stdout=subprocess.PIPE, nothing otherwise.
Captured(pipe, text) == IF pipe THEN Some(text) ELSE None

\* the tasks that do not dispatch are not running
NoTask ==
    /\ task = "none"
    /\ step = "idle"
    /\ trace = <<>>
    /\ tmpdir = "none"
    /\ tlocals = <<>>

\* nothing is dispatched
NoDispatch ==
    /\ hosts = <<>>
    /\ main = "idle"
    /\ pc = <<>>
    /\ locals = <<>>
    /\ ran = <<>>
    /\ results = <<>>
    /\ markdown = None

-----------------------------------------------------------------------------
(* deploy_nixos *)

\* target = f"{h.user or 'root'}@{h.host}"
deploy_target(h) == (IF Truthy(h.user) THEN h.user[1] ELSE <<"root">>) \o <<"@">> \o h.host

\* flake_path = h.meta.get("flake_path", "/etc/nixos")
deploy_flake_path(h) == meta_get(h.meta, "flake_path", Some(<<"/etc/nixos">>))[1]

rsync_cmd(path, h) ==
    <<"rsync", "--checksum", "-vaF", "--delete", "-e", "ssh">>
        \o path \o <<"/", " ">> \o deploy_target(h) \o <<":">> \o deploy_flake_path(h)

\* the nixos-rebuild command of one host
switch_cmd(h) ==
    LET flake_attr == meta_get(h.meta, "flake_attr", None)
        flake_path == IF Truthy(flake_attr)
                        THEN deploy_flake_path(h) \o <<"#">> \o flake_attr[1]
                        ELSE deploy_flake_path(h)
        target_host == meta_get(h.meta, "target_host", None)
        target_user == meta_get(h.meta, "target_user", None)
        cmd == <<"nixos-rebuild", "switch", "--fast", "--option", "accept-flake-config",
                 "true", "--flake">> \o flake_path \o <<"--option", "keep-going", "true">>
    IN IF Truthy(target_host)
         THEN cmd \o <<"--target-host">>
                  \o (IF Truthy(target_user)
                        THEN target_user[1] \o <<"@">> \o target_host[1]
                        ELSE target_host[1])
         ELSE cmd

\* if ret.returncode != 0
ShouldRetryAlways(ret) == TRUE
ShouldRetry(ret) == ret.returncode # 0

\* the check= argument of the first h.run(cmd, check=False) and of the retry
\* h.run(cmd); neither passes stdout=subprocess.PIPE
deploy_switch_check == FALSE
deploy_pipe == FALSE
deploy_retry_check_off == FALSE
deploy_retry_check == TRUE

\* the check of h.run_local("rsync ..."), which passes no check= argument
deploy_rsync_check_off == FALSE
deploy_rsync_check == TRUE

\* the command h.run is given for the retry
retry_cmd_plain(cmd) == SubSeq(cmd, 1, 2)
retry_cmd(cmd) == cmd

DeployLocals == [path |-> None, cmd |-> None, ret |-> None]

\* subprocess.run(["nix", "flake", "metadata", "--json"], check=True); the
\* callbacks start when it succeeded.
deploy_flake_metadata ==
    /\ main = "metadata"
    /\ \E rc \in {0, 1} :
         IF rc # 0
           THEN /\ main' = "raised"
                /\ UNCHANGED <<pc, locals>>
           ELSE /\ main' = "dispatch"
                /\ pc' = [i \in DOMAIN pc |-> "rsync"]
                /\ locals' = [i \in DOMAIN locals |->
                                [locals[i] EXCEPT !.path = Some(<<"/nix/store/src">>)]]
    /\ UNCHANGED <<hosts, ran, results, markdown>>
    /\ UNCHANGED taskVars

\* h.run_local("rsync ...") starts
deploy_rsync(i) ==
    /\ main = "dispatch"
    /\ pc[i] = "rsync"
    /\ ran' = [ran EXCEPT ![i] = Append(@, Started(rsync_cmd(locals[i].path[1], hosts[i])))]
    /\ pc' = [pc EXCEPT ![i] = "rsyncing"]
    /\ UNCHANGED <<hosts, main, locals, results, markdown>>
    /\ UNCHANGED taskVars

\* h.run_local("rsync ...") ends: a failure raises and ends the callback
deploy_rsync_done(i) ==
    /\ main = "dispatch"
    /\ pc[i] = "rsyncing"
    /\ \E rc \in ExitCodes :
         LET cmd == ran[i][Len(ran[i])].cmd
         IN /\ ran' = [ran EXCEPT ![i] = Finish(@, rc)]
            /\ IF deploy_rsync_check /\ rc # 0
                 THEN /\ pc' = [pc EXCEPT ![i] = "done"]
                      /\ results' = CaptureError(results, hosts[i],
                                                 CalledProcessError(cmd, rc, None))
                 ELSE /\ pc' = [pc EXCEPT ![i] = "switch"]
                      /\ UNCHANGED results
    /\ UNCHANGED <<hosts, main, locals, markdown>>
    /\ UNCHANGED taskVars

\* the first h.run(cmd, check=False) starts
deploy_switch(i) ==
    /\ main = "dispatch"
    /\ pc[i] = "switch"
    /\ LET cmd == switch_cmd(hosts[i])
       IN /\ locals' = [locals EXCEPT ![i].cmd = Some(cmd)]
          /\ ran' = [ran EXCEPT ![i] = Append(@, Started(cmd))]
    /\ pc' = [pc EXCEPT ![i] = "switching"]
    /\ UNCHANGED <<hosts, main, results, markdown>>
    /\ UNCHANGED taskVars

\* the first h.run ends: ret is set, and when it failed the retry starts
deploy_switch_done(i) ==
    /\ main = "dispatch"
    /\ pc[i] = "switching"
    /\ \E rc \in ExitCodes :
         LET cmd == locals[i].cmd[1]
             out == Captured(deploy_pipe, Output(i, Len(ran[i])))
             ret == CompletedProcess(cmd, rc, out)
         IN IF deploy_switch_check /\ rc # 0
              THEN /\ ran' = [ran EXCEPT ![i] = Finish(@, rc)]
                   /\ pc' = [pc EXCEPT ![i] = "done"]
                   /\ results' = CaptureError(results, hosts[i],
                                              CalledProcessError(cmd, rc, out))
                   /\ UNCHANGED locals
              ELSE /\ locals' = [locals EXCEPT ![i].ret = Some(ret)]
                   /\ IF ShouldRetry(ret)
                        THEN /\ ran' = [ran EXCEPT ![i] =
                                          Append(Finish(@, rc), Started(retry_cmd(cmd)))]
                             /\ pc' = [pc EXCEPT ![i] = "retrying"]
                             /\ UNCHANGED results
                        ELSE /\ ran' = [ran EXCEPT ![i] = Finish(@, rc)]
                             /\ pc' = [pc EXCEPT ![i] = "done"]
                             /\ results' = CaptureReturn(results, hosts[i], None)
    /\ UNCHANGED <<hosts, main, markdown>>
    /\ UNCHANGED taskVars

\* the retry h.run(cmd) ends: ret is overwritten, a failure raises
deploy_retry_done(i) ==
    /\ main = "dispatch"
    /\ pc[i] = "retrying"
    /\ \E rc \in ExitCodes :
         LET cmd == ran[i][Len(ran[i])].cmd
             out == Captured(deploy_pipe, Output(i, Len(ran[i])))
         IN /\ ran' = [ran EXCEPT ![i] = Finish(@, rc)]
            /\ pc' = [pc EXCEPT ![i] = "done"]
            /\ IF deploy_retry_check /\ rc # 0
                 THEN /\ results' = CaptureError(results, hosts[i],
                                                 CalledProcessError(cmd, rc, out))
                      /\ UNCHANGED locals
                 ELSE /\ results' = CaptureReturn(results, hosts[i], None)
                      /\ locals' = [locals EXCEPT ![i].ret =
                                      Some(CompletedProcess(cmd, rc, out))]
    /\ UNCHANGED <<hosts, main, markdown>>
    /\ UNCHANGED taskVars

\* g.run_function(deploy) returns when every callback has ended
deploy_join ==
    /\ main = "dispatch"
    /\ AllJoined
    /\ main' = "returned"
    /\ UNCHANGED <<hosts, pc, locals, ran, results, markdown>>
    /\ UNCHANGED taskVars

\* The host lists deploy_nixos is called with: get_hosts of some names (deploy,
\* deploy_host) or a single host with a meta (deploy_ruby, deploy_doctor).
DeployHostLists ==
    { get_hosts(SubSeq(HostNamePool, 1, n)) : n \in 1..NumHosts }
      \cup { <<DeployHost(<<"g">>, Some(<<"root">>), m)>> :
                m \in {RubyMeta, DoctorMeta} \cup OtherMetas }

InitDeploy ==
    /\ hosts \in DeployHostLists
    /\ main = "metadata"
    /\ pc = [i \in DOMAIN hosts |-> "idle"]
    /\ locals = [i \in DOMAIN hosts |-> DeployLocals]
    /\ ran = [i \in DOMAIN hosts |-> <<>>]
    /\ results = <<>>
    /\ markdown = None
    /\ NoTask

NextDeploy ==
    \/ deploy_flake_metadata
    \/ \E i \in DOMAIN hosts : deploy_rsync(i)
    \/ \E i \in DOMAIN hosts : deploy_rsync_done(i)
    \/ \E i \in DOMAIN hosts : deploy_switch(i)
    \/ \E i \in DOMAIN hosts : deploy_switch_done(i)
    \/ \E i \in DOMAIN hosts : deploy_retry_done(i)
    \/ deploy_join

SpecDeploy == InitDeploy /\ [][NextDeploy]_vars

-----------------------------------------------------------------------------
(* Properties of deploy_nixos (checked under SpecDeploy).                  *)

\* the nixos-rebuild runs of host i, in the order they were started
Activations(i) == SelectSeq(ran[i], LAMBDA e : e.cmd[1] = "nixos-rebuild")

\* the results collected for host i
ResultsOf(i) == { k \in DOMAIN results : results[k].host = hosts[i] }
ResultOf(i) == results[CHOOSE k \in ResultsOf(i) : TRUE]

\* the last command of host i ended with a non-zero exit status
WorkFailed(i) ==
    /\ ran[i] # <<>>
    /\ ran[i][Len(ran[i])].rc # None
    /\ ran[i][Len(ran[i])].rc[1] # 0

\* host i's callback ran to its own end: it stopped at a command of its own
\* that failed, or it finished an activation
WorkEnded(i) ==
    /\ ran[i] # <<>>
    /\ \A k \in DOMAIN ran[i] : ran[i][k].rc # None
    /\ (WorkFailed(i) \/ ran[i][Len(ran[i])].cmd[1] = "nixos-rebuild")

\* C1: when the dispatch of deploy_nixos returns, there are exactly as many
\* results as hosts, one per host; every host's callback has run to its own
\* end whatever happened to the other hosts; and a host's result is a failed
\* one exactly when that host's work failed.
C1_OneResultPerHost ==
    main = "returned" =>
        /\ Len(results) = Len(hosts)
        /\ \A i \in DOMAIN hosts :
             /\ Cardinality(ResultsOf(i)) = 1
             /\ WorkEnded(i)
             /\ (ResultOf(i).status # 0) <=> WorkFailed(i)

C1_Witness ==
    /\ main = "returned"
    /\ \E i, j \in DOMAIN hosts :
         /\ WorkFailed(i) /\ ResultOf(i).status # 0
         /\ ~WorkFailed(j) /\ ResultOf(j).status = 0

RetryStarted(i) == Len(Activations(i)) = 2

FirstAttemptOver(j) ==
    \/ pc[j] = "done"
    \/ Len(Activations(j)) >= 1 /\ Activations(j)[1].rc # None

\* C2 as stated: no host's retry has started while the first activation of
\* some host of the fan-out is still to complete.
C2_RetryAfterAllFirstAttempts ==
    \A i, j \in DOMAIN hosts : RetryStarted(i) => FirstAttemptOver(j)

\* C2, amended: a host's retry starts only after that same host's first
\* activation has completed with a non-zero exit status (it does not wait
\* for the other hosts).
C2_RetryAfterOwnFirstAttempt ==
    \A i \in DOMAIN hosts :
        RetryStarted(i) =>
            /\ Activations(i)[1].rc # None
            /\ Activations(i)[1].rc[1] # 0

C2_Witness ==
    \E i, j \in DOMAIN hosts : pc[i] = "retrying" /\ pc[j] = "switching"

\* C3: the activation command of a host runs at most twice; it runs a second
\* time exactly when the first run ended with a non-zero exit status; the
\* second run is the identical command.
C3_RetryExactlyOnce ==
    \A i \in DOMAIN hosts :
        LET a == Activations(i)
        IN /\ Len(a) <= 2
           /\ (Len(a) >= 1 /\ a[1].rc # None) =>
                 /\ (Len(a) = 2) <=> (a[1].rc[1] # 0)
                 /\ Len(a) = 2 => a[2].cmd = a[1].cmd

C3_Witness ==
    \E i \in DOMAIN hosts :
        /\ pc[i] = "done"
        /\ "target_host" \in DOMAIN hosts[i].meta
        /\ Len(Activations(i)) = 2

\* the texts of commands that can be read from a result
OutputsIn(r) ==
    IF r.status = 0 \/ r.result.output = None THEN {} ELSE {r.result.output[1]}

\* the text the k-th activation of host i printed
ActivationOutput(i, k) ==
    Output(i, CHOOSE n \in DOMAIN ran[i] :
                 /\ ran[i][n].cmd[1] = "nixos-rebuild"
                 /\ Len(SelectSeq(SubSeq(ran[i], 1, n),
                                  LAMBDA e : e.cmd[1] = "nixos-rebuild")) = k)

\* C4 as stated: a retry that succeeds gives a successful result; two failed
\* attempts give a failed result from which the output of both attempts can
\* be read.
C4_BothOutputsRetrievable ==
    \A i \in DOMAIN hosts :
        (pc[i] = "done" /\ Len(Activations(i)) = 2) =>
            IF Activations(i)[2].rc[1] = 0
              THEN ResultOf(i).status = 0
              ELSE /\ ResultOf(i).status # 0
                   /\ \A k \in 1..2 : ActivationOutput(i, k) \in OutputsIn(ResultOf(i))

\* C4, amended: a retry that succeeds gives a successful result; two failed
\* attempts give a failed result that carries the command and the exit
\* status of the retry only, and the output of neither attempt.
C4_FinalStatus ==
    \A i \in DOMAIN hosts :
        (pc[i] = "done" /\ Len(Activations(i)) = 2) =>
            IF Activations(i)[2].rc[1] = 0
              THEN ResultOf(i).status = 0
              ELSE /\ ResultOf(i).status = Activations(i)[2].rc[1]
                   /\ ResultOf(i).host = hosts[i]
                   /\ ResultOf(i).result.cmd = Activations(i)[2].cmd
                   /\ ResultOf(i).result.returncode = Activations(i)[2].rc[1]
                   /\ OutputsIn(ResultOf(i)) = {}

C4_Witness ==
    \E i, j \in DOMAIN hosts :
        /\ pc[i] = "done" /\ pc[j] = "done"
        /\ Len(Activations(i)) = 2 /\ Len(Activations(j)) = 2
        /\ Activations(i)[2].rc[1] = 0 /\ ResultOf(i).status = 0
        /\ Activations(j)[1].rc[1] = 1 /\ Activations(j)[2].rc[1] = 2
        /\ ResultOf(j).status = 2

\* the file syncs of host i, as places of ran[i]
Syncs(i) == { k \in DOMAIN ran[i] : ran[i][k].cmd[1] = "rsync" }

\* C12: within one host's callback the steps run in the order issued: the
\* file sync is the host's first command and its only sync, an activation (the
\* first attempt or the retry) is issued only when the sync has ended, and
\* none is issued for a host whose sync failed.
C12_ActivationAfterSync ==
    \A i \in DOMAIN ran :
        /\ ran[i] # <<>> => Syncs(i) = {1}
        /\ Activations(i) # <<>> => ran[i][1].rc = Some(0)
        /\ (ran[i] # <<>> /\ ran[i][1].rc \notin {None, Some(0)}) =>
              (Len(ran[i]) = 1 /\ pc[i] = "done")

\* one host's sync has failed and its callback has ended without an
\* activation, while another host, its sync over, has made both attempts
C12_Witness ==
    \E i, j \in DOMAIN hosts :
        /\ ran[i] # <<>> /\ ran[i][1].rc = Some(1)
        /\ Activations(i) = <<>> /\ pc[i] = "done"
        /\ ran[j] # <<>> /\ ran[j][1].rc = Some(0)
        /\ Len(Activations(j)) = 2

-----------------------------------------------------------------------------
(* document_cards *)

\* what dmidecode prints after a "System Slot Information" heading: a slot
\* without a bus address, slots with one or two, and a line naming a bus
\* address without a value
SlotTexts ==
    { <<"\n", "Designation: PCIe Slot 1", "\n">>,
      <<"\n", "Designation: PCIe Slot 2", "\n", "Bus Address", ": ", "0000:01:00.0", "\n">>,
      <<"\n", "Bus Address", ": ", " ", "0000:02:00.0", "\n", "Type: x16", "\n">>,
      <<"\n", "Bus Address", ": ", "0000:01:00.0", "\n",
              "Bus Address", ": ", "0000:02:00.0", "\n">>,
      <<"\n", "Bus Address", "\n">> }

DmiText(slots) ==
    <<"# dmidecode 3.3", "\n">>
        \o Concat([k \in 1..Len(slots) |-> <<"System Slot Information">> \o slots[k]])

DmiTexts == { DmiText(sl) : sl \in SeqsUpTo(SlotTexts, MaxSlots) } \cup { <<>> }

\* what lspci -m -s prints: a device line, another and nothing but a newline
LspciTexts ==
    { <<"1", " ", "\"", "N", "\"", " ", "\"", "I", "\"", "\n">>,
      <<"2", " ", "\"", "G", "\"", "\n">>,
      <<"\n">> }

\* the lines inxi --slots prints
InxiLines ==
    { <<"PCI Slots:">>,
      <<"  Slot: 1 type: PCIe ", "status: Available", " length: long">>,
      <<"  Slot: 2 type: PCIe ", "status: In Use">> }

InxiText(lines) == Concat([k \in 1..Len(lines) |-> lines[k] \o <<"\n">>])

InxiTexts == { InxiText(ls) : ls \in SeqsUpTo(InxiLines, MaxLines) }

\* the outputs of a run over several hosts
FewDmiTexts == { DmiText(<< <<"\n", "Bus Address", ": ", "0000:01:00.0", "\n">> >>) }
FewLspciTexts == { <<"1", " ", "\"", "N", "\"", "\n">> }
FewInxiTexts ==
    { InxiText(<< <<"  Slot: 1 ", "status: Available">> >>),
      InxiText(<< <<"PCI Slots:">>, <<"  Slot: 2 ", "status: In Use">> >>) }

dmidecode_cmd == <<"nix-shell -p 'dmidecode' --run \"sudo dmidecode -t slot\"">>
lspci_cmd(pciid) == <<"nix-shell -p 'pciutils' --run \"lspci -m -s ">> \o pciid \o <<"\"">>
inxi_cmd ==
    <<"nix-shell -p 'inxi.override { withRecommends = true; }' --run \"sudo inxi --slots -xxx -c0 --wrap-max 200\"">>

\* an error other than a failed command (an IndexError)
PyError(kind) == [cmd |-> <<kind>>, returncode |-> 1, output |-> None]

\* ret += ["No device/PCI ID."] or ret += [description]
slot_description(description) ==
    IF Len(description) = 0 THEN <<"No device/PCI ID.">> ELSE description

RECURSIVE get_slots_scan(_, _, _, _, _)
\* get_slots' two loops from line l of slot s on, up to the next h.run of
\* lspci, to the end of the slots, or to the IndexError of a line that names
\* a bus address and has no ": "
get_slots_scan(slots, s, l, description, ret) ==
    IF s > Len(slots)
      THEN [at |-> "return", s |-> s, l |-> l, pciid |-> <<>>, ret |-> ret]
      ELSE LET lines == SplitLines(slots[s])
           IN IF l > Len(lines)
                THEN get_slots_scan(slots, s + 1, 1, <<>>,
                                    Append(ret, slot_description(description)))
                ELSE IF Contains(lines[l], "Bus Address")
                       THEN IF Len(SplitOn(lines[l], ": ")) < 2
                              THEN [at |-> "IndexError", s |-> s, l |-> l,
                                    pciid |-> <<>>, ret |-> ret]
                              ELSE [at |-> "lspci", s |-> s, l |-> l,
                                    pciid |-> Strip(SplitOn(lines[l], ": ")[2]),
                                    ret |-> ret]
                       ELSE get_slots_scan(slots, s, l + 1, description, ret)

\* description.stdout.strip().replace(' "', ", ").replace('"', "")
lspci_description(stdout) ==
    Replace(Replace(Strip(stdout), <<" ", "\"">>, <<",", " ">>), <<"\"">>, <<>>)

\* descriptions.reverse()  # reverse so pop gives the first
doc_reverse_none(descriptions) == descriptions
doc_reverse(descriptions) == Reverse(descriptions)

\* if len(descriptions) == 0
NoDescriptionLeftOrOne(descriptions) == Len(descriptions) <= 1
NoDescriptionLeft(descriptions) == Len(descriptions) = 0

RECURSIVE doc_cards_lines(_, _, _)
\* the loop of doc_cards over the lines of inxi
doc_cards_lines(lines, descriptions, result) ==
    IF lines = <<>>
      THEN result
      ELSE LET line0 == Head(lines)
               avail == Contains(line0, "status: Available")
               line1 == IF avail THEN <<"- (U+2705)">> \o line0 ELSE line0
               inuse == Contains(line1, "status: In Use")
               line2 == IF inuse THEN <<"- (U+274C)">> \o line1 ELSE line1
               is_device_line == avail \/ inuse
               result1 == result \o line2 \o <<"   ", "\n">>
           IN IF is_device_line
                THEN IF NoDescriptionLeft(descriptions)
                       THEN doc_cards_lines(Tail(lines), descriptions,
                                            result1 \o <<"Error", "\n">>)
                       ELSE doc_cards_lines(Tail(lines),
                                            SubSeq(descriptions, 1, Len(descriptions) - 1),
                                            result1 \o descriptions[Len(descriptions)]
                                                    \o <<"  ", "\n">>)
                ELSE doc_cards_lines(Tail(lines), descriptions, result1)

\* doc_cards' return value
doc_cards_section(h, stdout, descriptions) ==
    <<"### ">> \o h.host \o <<" ", "\n", "\n">>
        \o doc_cards_lines(SplitLines(stdout), descriptions, <<>>)
        \o <<" ", "\n", "\n">>

DocLocals ==
    [slots |-> None, s |-> 0, l |-> 0, pciid |-> <<>>, ret |-> <<>>,
     inxi |-> None, section |-> None]

\* the position get_slots_scan found, taken into the locals of host i
doc_goto(i, slots, at) ==
    /\ at.at = "lspci" =>
         /\ pc' = [pc EXCEPT ![i] = "lspci"]
         /\ locals' = [locals EXCEPT ![i].slots = Some(slots), ![i].s = at.s, ![i].l = at.l,
                                     ![i].pciid = at.pciid, ![i].ret = at.ret]
         /\ UNCHANGED results
    /\ at.at = "return" =>
         /\ pc' = [pc EXCEPT ![i] = "inxi"]
         /\ locals' = [locals EXCEPT ![i] = [DocLocals EXCEPT !.ret = at.ret]]
         /\ UNCHANGED results
    /\ at.at = "IndexError" =>
         /\ pc' = [pc EXCEPT ![i] = "done"]
         /\ locals' = [locals EXCEPT ![i] = [DocLocals EXCEPT !.ret = at.ret]]
         /\ results' = CaptureError(results, hosts[i], PyError("IndexError"))

\* get_slots up to its first lspci: h.run(dmidecode, check=False)
doc_dmidecode(i, Texts) ==
    /\ main = "dispatch"
    /\ pc[i] = "dmidecode"
    /\ \E rc \in {0, 1}, stdout \in Texts :
         /\ ran' = [ran EXCEPT ![i] = Finish(Append(@, Started(dmidecode_cmd)), rc)]
         /\ IF rc # 0
              THEN /\ pc' = [pc EXCEPT ![i] = "inxi"]
                   /\ locals' = [locals EXCEPT ![i].ret = <<>>]
                   /\ UNCHANGED results
              ELSE LET slots == Tail(SplitOn(stdout, "System Slot Information"))
                   IN doc_goto(i, slots, get_slots_scan(slots, 1, 1, <<>>, <<>>))
    /\ UNCHANGED <<hosts, main, markdown>>
    /\ UNCHANGED taskVars

\* h.run(lspci) for the bus address at hand (a failure raises), and get_slots
\* on to the next one
doc_lspci(i, Texts) ==
    /\ main = "dispatch"
    /\ pc[i] = "lspci"
    /\ \E rc \in {0, 1}, stdout \in Texts :
         LET cmd == lspci_cmd(locals[i].pciid)
         IN /\ ran' = [ran EXCEPT ![i] = Finish(Append(@, Started(cmd)), rc)]
            /\ IF rc # 0
                 THEN /\ pc' = [pc EXCEPT ![i] = "done"]
                      /\ locals' = [locals EXCEPT ![i] = [DocLocals EXCEPT !.ret = locals[i].ret]]
                      /\ results' = CaptureError(results, hosts[i],
                                                 CalledProcessError(cmd, rc, Some(stdout)))
                 ELSE doc_goto(i, locals[i].slots[1],
                               get_slots_scan(locals[i].slots[1], locals[i].s,
                                              locals[i].l + 1, lspci_description(stdout),
                                              locals[i].ret))
    /\ UNCHANGED <<hosts, main, markdown>>
    /\ UNCHANGED taskVars

\* the rest of doc_cards: h.run(inxi) (a failure raises) and the rendering
doc_inxi(i, Texts) ==
    /\ main = "dispatch"
    /\ pc[i] = "inxi"
    /\ \E rc \in {0, 1}, stdout \in Texts :
         LET descriptions == doc_reverse(locals[i].ret)
             section == doc_cards_section(hosts[i], stdout, descriptions)
         IN /\ ran' = [ran EXCEPT ![i] = Finish(Append(@, Started(inxi_cmd)), rc)]
            /\ pc' = [pc EXCEPT ![i] = "done"]
            /\ IF rc # 0
                 THEN /\ results' = CaptureError(results, hosts[i],
                                        CalledProcessError(inxi_cmd, rc, Some(stdout)))
                      /\ UNCHANGED locals
                 ELSE /\ results' = CaptureReturn(results, hosts[i], section)
                      /\ locals' = [locals EXCEPT ![i].inxi = Some(stdout),
                                                  ![i].section = Some(section)]
    /\ UNCHANGED <<hosts, main, markdown>>
    /\ UNCHANGED taskVars

\* a result has a return value when its callback did not fail
HasValue(r) == r.status = 0

RECURSIVE sorted(_)
sorted_unsorted(rs) == rs
\* sorted(results, key=lambda i: i.host.host): a stable sort
sorted(rs) ==
    IF rs = <<>>
      THEN <<>>
      ELSE LET front == sorted(SubSeq(rs, 1, Len(rs) - 1))
               last == rs[Len(rs)]
               after == { k \in DOMAIN front : StrLess(last.host.host, front[k].host.host) }
               n == IF after = {} THEN Len(front) + 1
                    ELSE CHOOSE k \in after : \A m \in after : k <= m
           IN SubSeq(front, 1, n - 1) \o <<last>> \o SubSeq(front, n, Len(front))

\* hosts.run_function(doc_cards) has returned: the results are sorted and
\* their return values joined
document_join ==
    /\ main = "dispatch"
    /\ AllJoined
    /\ LET results2 == sorted(results)
       IN IF \A k \in DOMAIN results2 : HasValue(results2[k])
            THEN /\ main' = "returned"
                 /\ markdown' = Some(Concat([k \in DOMAIN results2 |-> results2[k].result]))
            ELSE /\ main' = "raised"
                 /\ UNCHANGED markdown
    /\ UNCHANGED <<hosts, pc, locals, ran, results>>
    /\ UNCHANGED taskVars

InitDocument(HostLists) ==
    /\ hosts \in HostLists
    /\ main = "dispatch"
    /\ pc = [i \in DOMAIN hosts |-> "dmidecode"]
    /\ locals = [i \in DOMAIN hosts |-> DocLocals]
    /\ ran = [i \in DOMAIN hosts |-> <<>>]
    /\ results = <<>>
    /\ markdown = None
    /\ NoTask

\* the host lists of a documentation run: the first n names in any order
DocHostLists ==
    UNION { { get_hosts([k \in 1..n |-> HostNamePool[p[k]]]) : p \in Orderings(n) } :
              n \in 1..NumHosts }

\* document_cards over one host, with every output of the commands
NextDocCards ==
    \/ \E i \in DOMAIN hosts : doc_dmidecode(i, DmiTexts)
    \/ \E i \in DOMAIN hosts : doc_lspci(i, LspciTexts)
    \/ \E i \in DOMAIN hosts : doc_inxi(i, InxiTexts)
    \/ document_join

SpecDocCards == InitDocument({get_hosts(<<HostNamePool[1]>>)}) /\ [][NextDocCards]_vars

\* document_cards over several hosts
NextDocument ==
    \/ \E i \in DOMAIN hosts : doc_dmidecode(i, FewDmiTexts)
    \/ \E i \in DOMAIN hosts : doc_lspci(i, FewLspciTexts)
    \/ \E i \in DOMAIN hosts : doc_inxi(i, FewInxiTexts)
    \/ document_join

SpecDocument == InitDocument(DocHostLists) /\ [][NextDocument]_vars

-----------------------------------------------------------------------------
(* Properties of doc_cards (checked under SpecDocCards) and of             *)
(* document_cards (checked under SpecDocument).                            *)

\* a slot-status line
StatusLine(line) ==
    Contains(line, "status: Available") \/ Contains(line, "status: In Use")

StatusCount(lines) == Len(SelectSeq(lines, StatusLine))

\* the position of the n-th slot-status line among lines
NthStatus(lines, n) ==
    CHOOSE k \in DOMAIN lines :
        StatusLine(lines[k]) /\ StatusCount(SubSeq(lines, 1, k)) = n

\* host i's doc_cards ended with a successful inxi
Rendered(i) ==
    /\ pc[i] = "done"
    /\ ran[i][Len(ran[i])].cmd = inxi_cmd
    /\ ran[i][Len(ran[i])].rc = Some(0)

\* the lines of inxi host i's doc_cards read and the lines it returned
InxiOf(i) == SplitLines(locals[i].inxi[1])
SectionOf(i) == SplitLines(ResultOf(i).result)

\* in the section of host i, the n-th slot-status line of inxi (with its
\* mark in front) is followed at once by the line text
FollowedBy(i, n, text) ==
    LET k == NthStatus(SectionOf(i), n)
    IN /\ Tail(SectionOf(i)[k]) = InxiOf(i)[NthStatus(InxiOf(i), n)] \o <<"   ">>
       /\ k < Len(SectionOf(i))
       /\ SectionOf(i)[k + 1] = text

\* C8: when inxi has as many slot-status lines as get_slots returned
\* descriptions, the N-th slot-status line is followed at once, in the
\* rendered section, by the N-th description get_slots returned.
C8_NthStatusNthDescription ==
    \A i \in DOMAIN hosts :
        (Rendered(i) /\ StatusCount(InxiOf(i)) = Len(locals[i].ret)) =>
            /\ ResultOf(i).status = 0
            /\ StatusCount(SectionOf(i)) = Len(locals[i].ret)
            /\ \A n \in 1..Len(locals[i].ret) :
                 FollowedBy(i, n, locals[i].ret[n] \o <<"  ">>)

C8_Witness ==
    \E i \in DOMAIN hosts :
        /\ Rendered(i)
        /\ StatusCount(InxiOf(i)) = 2
        /\ Len(locals[i].ret) = 2
        /\ locals[i].ret[1] # locals[i].ret[2]
        /\ FollowedBy(i, 2, locals[i].ret[2] \o <<"  ">>)

\* C9: when get_slots returned D descriptions (none when dmidecode failed)
\* and inxi has K > D slot-status lines, doc_cards raises nothing: the first
\* D slot-status lines are followed by their descriptions and each of the
\* other K - D by the line "Error".
C9_ShortfallRendersError ==
    \A i \in DOMAIN hosts :
        /\ (ran[i] # <<>> /\ ran[i][1].rc \notin {None, Some(0)} /\ pc[i] # "dmidecode")
              => locals[i].ret = <<>>
        /\ (Rendered(i) /\ StatusCount(InxiOf(i)) > Len(locals[i].ret)) =>
              /\ ResultOf(i).status = 0
              /\ StatusCount(SectionOf(i)) = StatusCount(InxiOf(i))
              /\ \A n \in 1..Len(locals[i].ret) :
                   FollowedBy(i, n, locals[i].ret[n] \o <<"  ">>)
              /\ \A n \in (Len(locals[i].ret) + 1)..StatusCount(InxiOf(i)) :
                   FollowedBy(i, n, <<"Error">>)

C9_Witness ==
    \E i \in DOMAIN hosts :
        /\ Rendered(i)
        /\ Len(locals[i].ret) = 1
        /\ StatusCount(InxiOf(i)) = 3
        /\ FollowedBy(i, 1, locals[i].ret[1] \o <<"  ">>)
        /\ FollowedBy(i, 3, <<"Error">>)

\* the host with exactly k - 1 hosts of a smaller name
NameRank(i) == 1 + Cardinality({ j \in DOMAIN hosts : StrLess(hosts[j].host, hosts[i].host) })
ByName(k) == CHOOSE i \in DOMAIN hosts : NameRank(i) = k

\* C10: the Markdown document_cards returns is the sections of the hosts in
\* ascending order of host name, whatever the order the callbacks ended in.
C10_SortedByHostname ==
    main = "returned" =>
        markdown = Some(Concat([k \in DOMAIN hosts |-> locals[ByName(k)].section[1]]))

C10_Witness ==
    /\ main = "returned"
    /\ Len(results) >= 2
    /\ StrLess(results[2].host.host, results[1].host.host)
    /\ locals[1].inxi # locals[2].inxi

-----------------------------------------------------------------------------
(* The tasks that stage secrets: document_craig, reformat_install_nixos,   *)
(* print_age_key, generate_ssh_cert.                                       *)

\* an entry of trace: the command, its exit status, what it printed to
\* stdout, and how the sops decryption it contains went ("none" when it
\* contains none, "ok", "failed")
Ran(cmd, rc, stdout, sops) == [cmd |-> cmd, rc |-> rc, stdout |-> stdout, sops |-> sops]

TaskLocals == [k |-> 1, umask |-> "inherited", total |-> 0, hosts |-> <<>>, error |-> None]

\* leaving "with tempfile.TemporaryDirectory() as tmpdir", by the end of the
\* block or by an exception
TemporaryDirectoryKept(raised) == IF raised THEN "present" ELSE "removed"
TemporaryDirectory_exit(raised) == "removed"

\* what the commands of these tasks print to stdout, as far as a task reads it
Stdouts == {<<>>, <<"ssh-ed25519 AAAA">>, <<"ssh-key AAAA">>}

\* c.run raises on a non-zero exit status unless warn=True; so does
\* subprocess.run with check=True
c_run_raises(rc, warn) == rc # 0 /\ ~warn

\* One command of a task at step `at`: it ends with one of the exit statuses
\* rcs and prints one of stdouts.  sops says what decryption it contains:
\* "none", "rc" (its exit status is sops') or "any" (a failure does not show
\* in the exit status).  A raise ends the task, and leaves the with block when
\* the command is in one; otherwise the task goes on at after[stdout], and
\* has left the with block when that is "returned".
c_run(at, cmd, rcs, stdouts, warn, sops, inwith, umask, after) ==
    /\ step = at
    /\ \E rc \in rcs, stdout \in stdouts, dec \in {"none", "ok", "failed"} :
         /\ sops = "none" => dec = "none"
         /\ sops = "rc" => dec = IF rc = 0 THEN "ok" ELSE "failed"
         /\ sops = "any" => dec # "none"
         /\ trace' = Append(trace, Ran(cmd, rc, stdout, dec))
         /\ IF c_run_raises(rc, warn)
              THEN /\ step' = "raised"
                   /\ tlocals' = [tlocals EXCEPT !.umask = umask]
                   /\ tmpdir' = IF inwith THEN TemporaryDirectory_exit(TRUE) ELSE tmpdir
              ELSE /\ step' = after[stdout].step
                   /\ tlocals' = [tlocals EXCEPT !.umask = umask, !.k = after[stdout].k]
                   /\ tmpdir' = IF ~inwith THEN tmpdir
                                ELSE IF after[stdout].step = "returned"
                                       THEN TemporaryDirectory_exit(FALSE)
                                       ELSE "present"
    /\ UNCHANGED task
    /\ UNCHANGED dispatchVars

Goto(s, k) == [step |-> s, k |-> k]

(* document_craig *)

\* ssh ... > {tmpdir}/craig.txt || true
craig_ssh ==
    c_run("craig_ssh", <<"ssh", "ADMIN@craig-mgmt.dse.in.tum.de", ">", "{tmpdir}/craig.txt", "||", "true">>,
          {0}, {<<>>}, FALSE, "none", TRUE, tlocals.umask,
          [out \in Stdouts |-> Goto("craig_diff", 1)])

\* diff <(sops -d {craig_sops}) {tmpdir}/craig.txt || true
craig_diff ==
    c_run("craig_diff", <<"diff", "<(", "sops", "-d", "craig.sops", ")", "{tmpdir}/craig.txt", "||", "true">>,
          {0}, {<<>>}, FALSE, "any", TRUE, tlocals.umask,
          [out \in Stdouts |-> Goto("craig_mv", 1)])

craig_mv ==
    c_run("craig_mv", <<"mv", "{tmpdir}/craig.txt", "craig.sops">>,
          {0, 1}, {<<>>}, FALSE, "none", TRUE, tlocals.umask,
          [out \in Stdouts |-> Goto("craig_encrypt", 1)])

craig_encrypt ==
    c_run("craig_encrypt", <<"sops", "-e", "craig.sops", ">", "{tmpdir}/craig.sops">>,
          {0, 1}, {<<>>}, FALSE, "none", TRUE, tlocals.umask,
          [out \in Stdouts |-> Goto("craig_mv_sops", 1)])

craig_mv_sops ==
    c_run("craig_mv_sops", <<"mv", "{tmpdir}/craig.sops", "craig.sops">>,
          {0, 1}, {<<>>}, FALSE, "none", TRUE, tlocals.umask,
          [out \in Stdouts |-> Goto("returned", 1)])

(* reformat_install_nixos *)

keynames == <<"ssh_host_rsa_key", "ssh_host_rsa_key.pub",
              "ssh_host_ed25519_key", "ssh_host_ed25519_key.pub">>

\* keyname.endswith(".pub")
IsPub(k) == k \in {2, 4}

\* decrypt_host_keys: the umask and the sops --extract of one key name
decrypt_host_keys ==
    c_run("decrypt_host_keys",
          <<"sops", "--extract", keynames[tlocals.k], "-d", "hosts/{host}.yml", ">",
            "{tmpdir}/etc/ssh/", keynames[tlocals.k]>>,
          {0, 1}, {<<>>}, FALSE, "rc", TRUE,
          IF IsPub(tlocals.k) THEN "0o133" ELSE "0o177",
          [out \in Stdouts |-> IF tlocals.k < Len(keynames)
                                 THEN Goto("decrypt_host_keys", tlocals.k + 1)
                                 ELSE Goto("nixos_remote_pxe", 1)])

\* the installer, then the end of the with block and the two info()
nixos_remote_pxe ==
    c_run("nixos_remote_pxe", <<"nixos-anywhere-pxe.py", "--flake", ".#{host}", "--extra-files", "{tmpdir}">>,
          {0, 1}, {<<>>}, FALSE, "none", TRUE, tlocals.umask,
          [out \in Stdouts |-> Goto("returned", 1)])

(* print_age_key *)

\* subprocess.run(["sops", "--extract", ...], check=True)
age_extract ==
    c_run("age_extract", <<"sops", "--extract", "ssh_host_ed25519_key.pub", "-d", "hosts/{host}.yml">>,
          {0, 1}, {<<"ssh-ed25519 AAAA">>}, FALSE, "rc", FALSE, tlocals.umask,
          [out \in Stdouts |-> Goto("ssh_to_age", 1)])

ssh_to_age ==
    c_run("ssh_to_age", <<"nix", "run", "--inputs-from", ".#", "nixpkgs#ssh-to-age">>,
          {0, 1}, {<<>>}, FALSE, "none", FALSE, tlocals.umask,
          [out \in Stdouts |-> Goto("returned", 1)])

(* generate_ssh_cert *)

keytypes == <<"rsa", "ed25519">>

\* the warn= argument of the extraction of a host's public key and of the
\* extraction of the CA key
cert_extract_warn == TRUE
cert_ca_warn_too == TRUE
cert_ca_warn == FALSE

\* after the last command of one key type: the next key type, or the CA key
cert_next_keytype ==
    IF tlocals.k < Len(keytypes) THEN Goto("cert_extract", tlocals.k + 1) ELSE Goto("cert_ca", 1)

cert_mkdir ==
    c_run("cert_mkdir", <<"mkdir", "-p", "{tmpdir}/etc/ssh">>,
          {0, 1}, {<<>>}, FALSE, "none", TRUE, tlocals.umask,
          [out \in Stdouts |-> Goto("cert_extract", 1)])

\* res = c.run("sops --extract ... -d {sops_file}", warn=True), and the branch
\* on len(res.stdout) == 0 (the else branch writes res.stdout to pubkey)
cert_extract ==
    c_run("cert_extract",
          <<"sops", "--extract", "ssh_host_", keytypes[tlocals.k], "_key.pub", "-d", "hosts/{host}.yml">>,
          {0, 1}, {<<>>, <<"ssh-key AAAA">>}, cert_extract_warn, "rc", TRUE, tlocals.umask,
          [out \in Stdouts |-> IF Len(out) = 0 THEN Goto("cert_keygen", tlocals.k) ELSE cert_next_keytype])

cert_keygen ==
    c_run("cert_keygen", <<"ssh-keygen", "-f", "{tmpdir}/etc/ssh/ssh_host_", keytypes[tlocals.k], "_key", "-t", keytypes[tlocals.k]>>,
          {0, 1}, {<<>>}, FALSE, "none", TRUE, tlocals.umask,
          [out \in Stdouts |-> Goto("cert_set_privkey", tlocals.k)])

cert_set_privkey ==
    c_run("cert_set_privkey", <<"sops", "--set", "ssh_host_", keytypes[tlocals.k], "_key", "hosts/{host}.yml">>,
          {0, 1}, {<<>>}, FALSE, "none", TRUE, tlocals.umask,
          [out \in Stdouts |-> Goto("cert_set_pubkey", tlocals.k)])

cert_set_pubkey ==
    c_run("cert_set_pubkey", <<"sops", "--set", "ssh_host_", keytypes[tlocals.k], "_key.pub", "hosts/{host}.yml">>,
          {0, 1}, {<<>>}, FALSE, "none", TRUE, tlocals.umask,
          [out \in Stdouts |-> cert_next_keytype])

\* os.umask(0o077) and the extraction of the CA key
cert_ca ==
    c_run("cert_ca", <<"sops", "--extract", "ssh-ca", "-d", "modules/sshd/ca-keys.yml", ">", "{tmpdir}/ssh-ca">>,
          {0, 1}, {<<>>}, cert_ca_warn, "rc", TRUE, "0o077",
          [out \in Stdouts |-> Goto("cert_sign", 1)])

cert_sign ==
    c_run("cert_sign", <<"ssh-keygen", "-h", "-s", "{tmpdir}/ssh-ca", "{tmpdir}/etc/ssh/ssh_host_ed25519_key.pub">>,
          {0, 1}, {<<>>}, FALSE, "none", TRUE, tlocals.umask,
          [out \in Stdouts |-> Goto("cert_mv", 1)])

cert_mv ==
    c_run("cert_mv", <<"mv", "{tmpdir}/etc/ssh/ssh_host_ed25519_key-cert.pub", "modules/sshd/certs/{host}-cert.pub">>,
          {0, 1}, {<<>>}, FALSE, "none", TRUE, tlocals.umask,
          [out \in Stdouts |-> Goto("returned", 1)])

-----------------------------------------------------------------------------
(* ipmi_powerconsumption *)

DseInTumDe == <<".", "d", "s", "e", ".", "i", "n", ".", "t", "u", "m", ".", "d", "e">>
Str_ryan == <<"r", "y", "a", "n">>
Str_graham == <<"g", "r", "a", "h", "a", "m">>
Str_astrid == <<"a", "s", "t", "r", "i", "d">>
Str_dan == <<"d", "a", "n">>
Str_mickey == <<"m", "i", "c", "k", "e", "y">>
Str_jackson == <<"j", "a", "c", "k", "s", "o", "n">>
Str_christina == <<"c", "h", "r", "i", "s", "t", "i", "n", "a">>
Str_adelaide == <<"a", "d", "e", "l", "a", "i", "d", "e">>
Str_wilfred == <<"w", "i", "l", "f", "r", "e", "d">>
Str_river == <<"r", "i", "v", "e", "r">>
Str_jack == <<"j", "a", "c", "k">>
Str_clara == <<"c", "l", "a", "r", "a">>
Str_amy == <<"a", "m", "y">>
Str_rose == <<"r", "o", "s", "e">>

\* used for different IPMI power readings
MANUFACTURERS ==
    [dell |->
       << Str_ryan \o DseInTumDe,
          Str_graham \o DseInTumDe,
          Str_astrid \o DseInTumDe,
          Str_dan \o DseInTumDe,
          Str_mickey \o DseInTumDe >>,
     supermicro |->
       << Str_jackson \o DseInTumDe,
          Str_christina \o DseInTumDe,
          Str_adelaide \o DseInTumDe,
          Str_wilfred \o DseInTumDe,
          Str_river \o DseInTumDe,
          Str_jack \o DseInTumDe,
          Str_clara \o DseInTumDe,
          Str_amy \o DseInTumDe,
          Str_rose \o DseInTumDe >> ]

RECURSIVE Join(_, _)
\* sep.join(parts)
Join(parts, sep) ==
    IF parts = <<>> THEN <<>>
    ELSE IF Len(parts) = 1 THEN parts[1]
    ELSE parts[1] \o <<sep>> \o Join(Tail(parts), sep)

mgmt_hostname_whole(hostname) == hostname \o <<"-", "m", "g", "m", "t">>

\* splits = hostname.split("."); splits[0] = f"{splits[0]}-mgmt";
\* ".".join(splits)
mgmt_hostname(hostname) ==
    LET splits == SplitOn(hostname, ".")
    IN Join([splits EXCEPT ![1] = @ \o <<"-", "m", "g", "m", "t">>], ".")

\* the hosts in the order of the two loops, each with the label its reading
\* is looked for under and the ipmitool command
PowerHosts ==
    [k \in 1..Len(MANUFACTURERS.dell) |->
        [hostname |-> MANUFACTURERS.dell[k], label |-> <<"Sensor Reading">>,
         cmd |-> "sensor get Pwr\\ Consumption"]]
    \o [k \in 1..Len(MANUFACTURERS.supermicro) |->
        [hostname |-> MANUFACTURERS.supermicro[k],
         label |-> <<"Instantaneous power reading", ":">>,
         cmd |-> "dcmi power reading"]]

\* what ipmitool prints: two Dell sensor readings, a Supermicro power
\* reading, and a Dell sensor without a reading
IpmiTexts ==
    { <<"Locating sensor record...", "\n", "Sensor ID", " ", ":", " ", "Pwr Consumption", "\n",
        " ", "Sensor Reading", " ", " ", ":", " ", "1", "8", "2", " ", "(+/- 0)", " ", "Watts", "\n">>,
      <<" ", "Sensor Reading", " ", ":", " ", "9", "5", " ", "(+/- 0)", " ", "Watts", "\n">>,
      <<"\n", " ", "Instantaneous power reading", ":", " ", " ", "2", "1", "4", " ", "Watts", "\n",
        " ", "Minimum during sampling period", ":", " ", "2", " ", "Watts", "\n">>,
      <<" ", "Sensor Reading", " ", ":", " ", "na", "\n">> }

\* sub in line, for a text of several fragments
ContainsSeq(line, sub) ==
    \E k \in 1..(Len(line) - Len(sub) + 1) : SubSeq(line, k, k + Len(sub) - 1) = sub

Digit == [c \in {"0", "1", "2", "3", "4", "5", "6", "7", "8", "9"} |->
            CASE c = "0" -> 0 [] c = "1" -> 1 [] c = "2" -> 2 [] c = "3" -> 3 [] c = "4" -> 4
              [] c = "5" -> 5 [] c = "6" -> 6 [] c = "7" -> 7 [] c = "8" -> 8 [] c = "9" -> 9]

RECURSIVE IntOf(_)
\* int(s) of a string of digits
IntOf(s) == IF s = <<>> THEN 0 ELSE 10 * IntOf(SubSeq(s, 1, Len(s) - 1)) + Digit[s[Len(s)]]

\* reading.strip().split(":")[1].strip().split(" ")[0], as an integer; or
\* the error raised on the way
reading_of_line(line) ==
    LET fields == SplitOn(Strip(line), ":")
    IN IF Len(fields) < 2
         THEN [error |-> Some("IndexError"), reading |-> 0]
         ELSE LET word == SplitOn(Strip(fields[2]), " ")[1]
              IN IF word = <<>> \/ \E k \in DOMAIN word : word[k] \notin DOMAIN Digit
                   THEN [error |-> Some("ValueError"), reading |-> 0]
                   ELSE [error |-> None, reading |-> IntOf(word)]

\* the lines of res.stdout with the label
lines_with(stdout, label) ==
    SelectSeq(SplitLines(stdout), LAMBDA line : ContainsSeq(line, label))

parse_reading_or_skip(stdout, label) ==
    IF lines_with(stdout, label) = <<>>
      THEN [error |-> None, reading |-> 0]
      ELSE reading_of_line(lines_with(stdout, label)[1])

\* the parse of a power reading: the reading of the first line with the
\* label; without such a line the index [0] raises
parse_reading(stdout, label) ==
    IF lines_with(stdout, label) = <<>>
      THEN [error |-> Some("IndexError"), reading |-> 0]
      ELSE reading_of_line(lines_with(stdout, label)[1])

\* the warn= argument of ipmi_password's c.run
ipmi_password_warn == FALSE

\* hosts += [hostname.split(".")[0]], hostname = mgmt_hostname(hostname), and
\* ipmitool's ipmi_password(c): a failure raises before ipmitool is run
ipmi_password ==
    /\ task = "ipmi_powerconsumption"
    /\ step = "ipmi_password"
    /\ \E rc \in {0, 1} :
         /\ trace' = Append(trace,
                Ran(<<"sops", "-d", "--extract", "ipmi-passwords", "secrets.yml">>, rc,
                    IF rc = 0 THEN <<"secret">> ELSE <<>>,
                    IF rc = 0 THEN "ok" ELSE "failed"))
         /\ tlocals' = [tlocals EXCEPT
                          !.hosts = Append(@, SplitOn(PowerHosts[tlocals.k].hostname, ".")[1])]
         /\ step' = IF c_run_raises(rc, ipmi_password_warn) THEN "raised" ELSE "ipmitool"
    /\ UNCHANGED <<task, tmpdir>>
    /\ UNCHANGED dispatchVars

\* ipmitool's c.run (a failure raises), the parse of the reading, the total;
\* after the last host the totals are printed
ipmitool ==
    /\ task = "ipmi_powerconsumption"
    /\ step = "ipmitool"
    /\ \E rc \in {0, 1}, stdout \in IpmiTexts :
         LET host == PowerHosts[tlocals.k]
             parsed == parse_reading(stdout, host.label)
         IN /\ trace' = Append(trace,
                   Ran(<<"ipmitool", "-I", "lanplus", "-H">> \o mgmt_hostname(host.hostname)
                          \o <<"-U", "ADMIN", "-P", "secret", host.cmd>>,
                       rc, stdout, "none"))
            /\ IF c_run_raises(rc, FALSE)
                 THEN /\ step' = "raised"
                      /\ tlocals' = [tlocals EXCEPT !.error = Some("UnexpectedExit")]
                 ELSE IF parsed.error # None
                        THEN /\ step' = "raised"
                             /\ tlocals' = [tlocals EXCEPT !.error = parsed.error]
                        ELSE /\ step' = IF tlocals.k < Len(PowerHosts)
                                          THEN "ipmi_password" ELSE "returned"
                             /\ tlocals' = [tlocals EXCEPT
                                              !.total = @ + parsed.reading,
                                              !.k = IF @ < Len(PowerHosts) THEN @ + 1 ELSE @]
    /\ UNCHANGED <<task, tmpdir>>
    /\ UNCHANGED dispatchVars

-----------------------------------------------------------------------------

\* the first step of each task
FirstStep ==
    [document_craig |-> "craig_ssh",
     reformat_install_nixos |-> "decrypt_host_keys",
     print_age_key |-> "age_extract",
     generate_ssh_cert |-> "cert_mkdir",
     ipmi_powerconsumption |-> "ipmi_password"]

InitTask ==
    /\ task \in DOMAIN FirstStep
    /\ step = FirstStep[task]
    /\ trace = <<>>
    /\ tmpdir = "none"
    /\ tlocals = TaskLocals
    /\ NoDispatch

NextTask ==
    \/ craig_ssh
    \/ craig_diff
    \/ craig_mv
    \/ craig_encrypt
    \/ craig_mv_sops
    \/ decrypt_host_keys
    \/ nixos_remote_pxe
    \/ age_extract
    \/ ssh_to_age
    \/ cert_mkdir
    \/ cert_extract
    \/ cert_keygen
    \/ cert_set_privkey
    \/ cert_set_pubkey
    \/ cert_ca
    \/ cert_sign
    \/ cert_mv
    \/ ipmi_password
    \/ ipmitool

SpecTask == InitTask /\ [][NextTask]_vars

-----------------------------------------------------------------------------
(* Properties of the tasks (checked under SpecTask).                       *)

Ended == step \in {"returned", "raised"}

\* the k-th command of the task contained a sops decryption that failed
FailedExtraction(k) == trace[k].sops = "failed"

\* C5 as stated: a failed extraction is the last command of its task, which
\* it ends with an error.
C5_ExtractionFailureFatal ==
    \A k \in DOMAIN trace : FailedExtraction(k) => (k = Len(trace) /\ step = "raised")

\* the extractions whose failure the code lets pass: generate_ssh_cert's
\* extraction of a host's public key (warn=True) and document_craig's
\* decryption inside diff (|| true)
Tolerated(e) ==
    \/ e.cmd[1] = "diff"
    \/ task = "generate_ssh_cert" /\ e.cmd[1] = "sops" /\ e.cmd[3] = "ssh_host_"

\* C5, amended: no failed extraction is attempted again; the failure ends the
\* task at once, with an error, in ipmi_password, decrypt_host_keys,
\* print_age_key and generate_ssh_cert's extraction of the CA key; the
\* failure of generate_ssh_cert's extraction of a host's public key and of
\* document_craig's decryption does not end the task, and after the former,
\* with nothing printed, the next command is the ssh-keygen of a new key.
C5_ExtractionFailure ==
    \A k \in DOMAIN trace :
        FailedExtraction(k) =>
            /\ \A m \in (k + 1)..Len(trace) : trace[m].cmd # trace[k].cmd
            /\ IF Tolerated(trace[k])
                 THEN /\ k = Len(trace) => step # "raised"
                      /\ (task = "generate_ssh_cert" /\ trace[k].stdout = <<>>) =>
                            IF k = Len(trace)
                              THEN step = "cert_keygen"
                              ELSE trace[k + 1].cmd[1] = "ssh-keygen"
                 ELSE k = Len(trace) /\ step = "raised"

C5_Witness ==
    /\ task = "generate_ssh_cert"
    /\ step = "raised"
    /\ \E k \in DOMAIN trace :
         /\ FailedExtraction(k)
         /\ k + 3 < Len(trace)
         /\ trace[k + 1].cmd[1] = "ssh-keygen"
         /\ trace[k + 3].cmd[2] = "--set"
    /\ FailedExtraction(Len(trace))
    /\ trace[Len(trace)].cmd[3] = "ssh-ca"

TmpTasks == {"document_craig", "reformat_install_nixos", "generate_ssh_cert"}

\* C6: when a task that creates a temporary directory has ended, by
\* returning or by an error of any of its commands, the directory is removed.
C6_TmpdirRemoved == (Ended /\ task \in TmpTasks) => tmpdir = "removed"

C6_Witness ==
    /\ task \in TmpTasks
    /\ step = "raised"
    /\ Len(trace) >= 3
    /\ tmpdir = "removed"

\* the runs of ipmitool, the j-th of them for the j-th host
Queries == SelectSeq(trace, LAMBDA e : e.cmd[1] = "ipmitool")

\* the j-th host was queried and the output has no line with its label
Unrecognized(j) ==
    /\ j <= Len(Queries)
    /\ Queries[j].rc = 0
    /\ \A n \in DOMAIN SplitLines(Queries[j].stdout) :
         ~ContainsSeq(SplitLines(Queries[j].stdout)[n], PowerHosts[j].label)

\* C7 as stated: when the measurement has ended and the output for some host
\* was of no recognized format, every host of the two lists was queried.
C7_SiblingsStillMeasured ==
    (task = "ipmi_powerconsumption" /\ Ended /\ \E j \in DOMAIN PowerHosts : Unrecognized(j))
        => Len(Queries) = Len(PowerHosts)

\* C7, amended: an output of no recognized format ends the whole measurement
\* with an IndexError: no host after that one is queried, and the hosts
\* noted so far are the ones up to it.
C7_UnrecognizedEndsTask ==
    \A j \in DOMAIN PowerHosts :
        Unrecognized(j) =>
            /\ step = "raised"
            /\ tlocals.error = Some("IndexError")
            /\ Len(Queries) = j
            /\ Len(tlocals.hosts) = j

C7_Witness ==
    /\ task = "ipmi_powerconsumption"
    /\ step = "raised"
    /\ Unrecognized(7)
    /\ tlocals.total > 0


-----------------------------------------------------------------------------
(* mgmt_hostname on its own: the hostnames of MANUFACTURERS are all of one  *)
(* shape, so the function is also applied to every short hostname over two *)
(* letters and the dot.                                                    *)

MgmtLocals(hostname) == [hostname |-> hostname, result |-> None]

\* the hostnames mgmt_hostname is applied to
MgmtHostnames ==
    SeqsUpTo({"a", "b", "."}, MaxName)
      \cup { MANUFACTURERS.dell[k] : k \in DOMAIN MANUFACTURERS.dell }
      \cup { MANUFACTURERS.supermicro[k] : k \in DOMAIN MANUFACTURERS.supermicro }

\* hostname = mgmt_hostname(hostname)
mgmt_hostname_return ==
    /\ task = "mgmt_hostname"
    /\ step = "call"
    /\ tlocals' = [tlocals EXCEPT !.result = Some(mgmt_hostname(tlocals.hostname))]
    /\ step' = "returned"
    /\ UNCHANGED <<task, trace, tmpdir>>
    /\ UNCHANGED dispatchVars

InitMgmt ==
    /\ task = "mgmt_hostname"
    /\ step = "call"
    /\ trace = <<>>
    /\ tmpdir = "none"
    /\ \E hostname \in MgmtHostnames : tlocals = MgmtLocals(hostname)
    /\ NoDispatch

NextMgmt == mgmt_hostname_return

SpecMgmt == InitMgmt /\ [][NextMgmt]_vars

-----------------------------------------------------------------------------
(* Properties of mgmt_hostname (checked under SpecMgmt).                   *)

MgmtSuffix == <<"-", "m", "g", "m", "t">>

\* where the first label of a hostname ends: the place of its first dot, or
\* one past its end
FirstLabelEnd(s) ==
    IF \E k \in DOMAIN s : s[k] = "."
      THEN CHOOSE k \in DOMAIN s : s[k] = "." /\ \A m \in 1..(k - 1) : s[m] # "."
      ELSE Len(s) + 1

\* the number of dots of a hostname
Dots(s) == Cardinality({ k \in DOMAIN s : s[k] = "." })

\* C11: the result of mgmt_hostname is the hostname with "-mgmt" put at the
\* end of its first dot-delimited label: the first label and the rest (the
\* other labels, their order and their number) are as they were, and a
\* hostname without a dot is followed by "-mgmt".
C11_SuffixOnFirstLabelOnly ==
    (task = "mgmt_hostname" /\ step = "returned") =>
        LET hostname == tlocals.hostname
            result == tlocals.result[1]
            d == FirstLabelEnd(hostname)
        IN /\ result = SubSeq(hostname, 1, d - 1) \o MgmtSuffix \o SubSeq(hostname, d, Len(hostname))
           /\ Dots(result) = Dots(hostname)
           /\ Dots(hostname) = 0 => result = hostname \o MgmtSuffix
           /\ hostname = Str_ryan \o DseInTumDe =>
                 result = Str_ryan \o MgmtSuffix \o DseInTumDe

\* mgmt_hostname has returned for a hostname of three labels, the first and
\* the second of them empty or not
C11_Witness ==
    /\ task = "mgmt_hostname"
    /\ step = "returned"
    /\ Dots(tlocals.hostname) = 2
    /\ tlocals.hostname[2] = "."
    /\ tlocals.result[1] = <<tlocals.hostname[1]>> \o MgmtSuffix \o Tail(tlocals.hostname)


-----------------------------------------------------------------------------
(* reboot and wait_for_host *)

\* the entries of trace: g.run("reboot &") on a host with its exit status,
\* one ping of wait_for_host with its exit status, and the return of
\* wait_for_host.  idx is the host's place in deploy_hosts.
RebootSent(idx, host, rc) ==
    [ev |-> "reboot", idx |-> idx, host |-> host, shutdown |-> FALSE, rc |-> rc]
Pinged(idx, host, shutdown, rc) ==
    [ev |-> "ping", idx |-> idx, host |-> host, shutdown |-> shutdown, rc |-> rc]
WaitReturned(idx, host, shutdown) ==
    [ev |-> "returned", idx |-> idx, host |-> host, shutdown |-> shutdown, rc |-> 0]

RebootLocals(deploy_hosts) == [deploy_hosts |-> deploy_hosts, k |-> 1, pings |-> 0]

\* g.run("reboot &") passes no check= argument: a failure raises
reboot_check == TRUE

\* the test that ends the loop of wait_for_host
wait_break_any(shutdown, returncode) == TRUE
wait_break(shutdown, returncode) ==
    IF shutdown THEN returncode = 1 ELSE returncode = 0

\* for h in deploy_hosts: g = DeployGroup([h]); g.run("reboot &")
reboot_run ==
    /\ task = "reboot"
    /\ step = "reboot"
    /\ \E rc \in {0, 1} :
         /\ trace' = Append(trace, RebootSent(tlocals.k, tlocals.deploy_hosts[tlocals.k].host, rc))
         /\ step' = IF reboot_check /\ rc # 0 THEN "raised" ELSE "wait_shutdown"
    /\ UNCHANGED <<task, tmpdir, tlocals>>
    /\ UNCHANGED dispatchVars

\* One turn of the loop of wait_for_host(h.host, shutdown): the ping, the
\* test, and either the return to reboot (which goes on to the wait for the
\* start, to the next host, or ends) or the sleep before the next turn.
wait_for_host(shutdown) ==
    /\ task = "reboot"
    /\ step = IF shutdown THEN "wait_shutdown" ELSE "wait_start"
    /\ tlocals.pings < MaxPings
    /\ \E rc \in ExitCodes :
         LET k == tlocals.k
             host == tlocals.deploy_hosts[k].host
         IN IF wait_break(shutdown, rc)
              THEN /\ trace' = trace \o <<Pinged(k, host, shutdown, rc),
                                           WaitReturned(k, host, shutdown)>>
                   /\ step' = IF shutdown THEN "wait_start"
                              ELSE IF k < Len(tlocals.deploy_hosts) THEN "reboot"
                              ELSE "returned"
                   /\ tlocals' = [tlocals EXCEPT
                                    !.pings = 0,
                                    !.k = IF ~shutdown /\ k < Len(tlocals.deploy_hosts)
                                            THEN k + 1 ELSE k]
              ELSE /\ trace' = Append(trace, Pinged(k, host, shutdown, rc))
                   /\ step' = step
                   /\ tlocals' = [tlocals EXCEPT !.pings = @ + 1]
    /\ UNCHANGED <<task, tmpdir>>
    /\ UNCHANGED dispatchVars

\* the host lists reboot is called with: some names, and one name twice
RebootHostLists ==
    { get_hosts(SubSeq(HostNamePool, 1, n)) : n \in 1..NumHosts }
      \cup { get_hosts(<<HostNamePool[1], HostNamePool[1]>>) }

InitReboot ==
    /\ task = "reboot"
    /\ step = "reboot"
    /\ trace = <<>>
    /\ tmpdir = "none"
    /\ \E deploy_hosts \in RebootHostLists : tlocals = RebootLocals(deploy_hosts)
    /\ NoDispatch

NextReboot ==
    \/ reboot_run
    \/ wait_for_host(TRUE)
    \/ wait_for_host(FALSE)

SpecReboot == InitReboot /\ [][NextReboot]_vars


-----------------------------------------------------------------------------
(* Properties of reboot and wait_for_host (checked under SpecReboot).      *)

\* the places of trace where a reboot was sent
Reboots == { p \in DOMAIN trace : trace[p].ev = "reboot" }

\* wait_for_host(shutdown) returned at place p of trace for the host at idx,
\* its last ping being the one before
ReturnedAt(p, idx, shutdown) ==
    /\ p \in DOMAIN trace /\ p > 1
    /\ trace[p] = WaitReturned(idx, tlocals.deploy_hosts[idx].host, shutdown)
    /\ trace[p - 1].ev = "ping"
    /\ trace[p - 1].idx = idx
    /\ trace[p - 1].shutdown = shutdown

\* the host at idx was seen down at place d (a ping of the wait for its
\* shutdown got no answer, and the wait returned) and up at place u
SeenDownThenUp(idx, d, u) ==
    /\ d < u
    /\ ReturnedAt(d, idx, TRUE) /\ trace[d - 1].rc # 0
    /\ ReturnedAt(u, idx, FALSE) /\ trace[u - 1].rc = 0

\* the hosts that were sent a reboot and have not been seen up since
NotBackUp ==
    { idx \in DOMAIN tlocals.deploy_hosts :
        \E p \in Reboots :
            /\ trace[p].idx = idx
            /\ ~\E u \in (p + 1)..Len(trace) : ReturnedAt(u, idx, FALSE) }

\* C13: reboot is a rolling reboot.  The n-th reboot is sent to the n-th
\* host of the list; it is sent only when the host before it was, after
\* its own reboot, seen down by the wait for its shutdown and then seen up by
\* the wait for its start; so at most one host has been sent a reboot without
\* having been seen up again.
C13_RollingReboot ==
    task = "reboot" =>
        /\ \A p \in Reboots :
              LET idx == trace[p].idx
              IN /\ idx = Cardinality({ q \in Reboots : q <= p })
                 /\ trace[p].host = tlocals.deploy_hosts[idx].host
                 /\ idx > 1 =>
                       \E q \in Reboots, d, u \in 1..(p - 1) :
                           /\ trace[q].idx = idx - 1
                           /\ q < d
                           /\ SeenDownThenUp(idx - 1, d, u)
        /\ Cardinality(NotBackUp) <= 1

\* two different hosts were rebooted one after the other and the task has
\* returned; the first still answered the first ping of the wait for its
\* shutdown, the second did not answer the first ping of the wait for its
\* start
C13_Witness ==
    /\ task = "reboot"
    /\ step = "returned"
    /\ Len(tlocals.deploy_hosts) = 2
    /\ tlocals.deploy_hosts[1] # tlocals.deploy_hosts[2]
    /\ Cardinality(Reboots) = 2
    /\ \E p \in DOMAIN trace :
          trace[p].ev = "ping" /\ trace[p].idx = 1 /\ trace[p].shutdown /\ trace[p].rc = 0
    /\ \E p \in DOMAIN trace :
          trace[p].ev = "ping" /\ trace[p].idx = 2 /\ ~trace[p].shutdown /\ trace[p].rc = 1

\* C14 as stated, for the wait for a shutdown: wait_for_host(shutdown=True)
\* returns once a ping ends with a non-zero exit status, whichever it is:
\* such a ping is the last of its wait.
C14_ReturnsOnAnyNonZeroPing ==
    task = "reboot" =>
        \A p \in DOMAIN trace :
            (trace[p].ev = "ping" /\ trace[p].shutdown /\ trace[p].rc # 0) =>
                (p < Len(trace) /\ trace[p + 1].ev = "returned")

====
